---- MODULE Spec2Model ----
(***************************************************************************)
(* Model of the newsflow Timeline Compositor: renderVideoBlob and its      *)
(* callers in src/components/ProductionMonitor.tsx, and the parts of the   *)
(* App component (src/components/ChannelModal.tsx, lines 102-728) that     *)
(* mount the ProductionMonitor, reset it and publish its output.           *)
(*                                                                         *)
(* Time is counted in whole seconds.  A video element whose duration is    *)
(* NaN is written with the sentinel NaN.  Of the App states only IDLE,     *)
(* READY_TO_PUBLISH, PUBLISHING and PUBLISHED are modelled.                *)
(*                                                                         *)
(* pass[p] is the p-th invocation of renderVideoBlob: its position (pc),   *)
(* the promise it returned, its closure (content, chan, live: the          *)
(* component instance that started it is still mounted), its locals        *)
(* (timeline, chunks, audioCtx, recorder) and what has been observed of it *)
(* (frames: frames composited, counted up to MaxFrames; active, fallback:  *)
(* the item the last tick drew and whether find ever missed; drawn, rafs:  *)
(* frames composited by the last renderLoop call and animation-frame       *)
(* callbacks pending after it; stops: calls of recorder.stop(); source:    *)
(* the audio source node; vidTime: the seek of the last call, <<t>>, or    *)
(* <<>> when it made none; emitted, sizes: dataavailable events so far and *)
(* the size of the data of each; errored, stopSeen: onerror ran, the loop  *)
(* called recorder.stop(); sink: what the awaiting handler did; cancelled: *)
(* the phase a reset found it in).                                         *)
(*                                                                         *)
(* draw is one call of drawImageContain: the natural size of the source,   *)
(* the canvas size and, once called, the rectangle handed to drawImage.    *)
(* Its coordinates are exact fractions <<numerator, denominator>>.         *)
(*                                                                         *)
(* api is the request pacing of src/services/geminiService.ts: the clock   *)
(* (now, in milliseconds), lastRequestTime, the callers of callWithRetry   *)
(* (position, retries and delay of the current call, wake: when the timer  *)
(* it awaits is due, calls: invocations of the wrapped function, raised:   *)
(* the last error that function threw, err: the error callWithRetry threw) *)
(* and starts, the times at which the wrapped function was invoked.        *)
(*                                                                         *)
(* archive is the project archive in storage: data, the ids whose project  *)
(* data is stored; index, the ids listed under ARCHIVE_INDEX_KEY; deleted, *)
(* the ids deleteArchivedProject was called for; and the calls in progress *)
(* (op: saveToArchive or deleteArchivedProject, its id, its position and   *)
(* local, the index it has read).  The project saved by call o has id o;   *)
(* id 0 is a project archived earlier.                                     *)
(*                                                                         *)
(* Definitions named ...Mut... are faulty variants of the definition that  *)
(* follows them, used to show that a property depends on that definition.  *)
(***************************************************************************)
EXTENDS Integers, Sequences, FiniteSets, TLC

\* ---------------------------------------------------------------- bounds
MaxPasses == 2
MaxAssets == 2
MaxVideoDuration == 1
MaxTotalDuration == 5
MaxClockStep == 1
MaxChunks == 2
MaxFrames == 1
MaxSingleDuration == 12
MaxSourceSize == 16
MaxClipDuration == 3
MaxBuildDuration == 8
MaxCallers == 3
MaxTicks == 3
MaxOps == 2

\* ------------------------------------------------------ program constants
DefaultImageDuration == 5
MIN_REQUEST_SPACING == 2000
DefaultRetries == 3
DefaultDelay == 5000
RateLimitWait == 15000
NaN == 0 - 1

Passes == 1..MaxPasses

\* ------------------------------------------------------------ data model
ImageAsset == [type |-> "image", duration |-> 0]
VideoAssets == {[type |-> "video", duration |-> d] : d \in {NaN} \cup (0..MaxVideoDuration)}
AssetKinds == {ImageAsset} \cup VideoAssets
AssetLists == UNION {[1..n -> AssetKinds] : n \in 0..MaxAssets}

EmptyContent == [audioUrl |-> FALSE, assets |-> <<>>, audioDuration |-> 0]

\* contents a single render pass is exercised on
RenderContents ==
    {[audioUrl |-> TRUE, assets |-> s, audioDuration |-> t] :
        s \in AssetLists, t \in 0..MaxTotalDuration}
    \cup {[audioUrl |-> FALSE, assets |-> s, audioDuration |-> 0] : s \in AssetLists}

\* contents with a single asset and a longer audio
SingleAssets ==
    {ImageAsset}
    \cup {[type |-> "video", duration |-> d] : d \in {NaN} \cup (0..MaxSingleDuration)}

SingleAssetContents ==
    {[audioUrl |-> TRUE, assets |-> <<a>>, audioDuration |-> t] :
        a \in SingleAssets, t \in 0..MaxSingleDuration}

\* contents with video clips of several seconds and a longer audio
ClipAssets ==
    {ImageAsset}
    \cup {[type |-> "video", duration |-> d] : d \in {NaN} \cup (0..MaxClipDuration)}

ClipContents ==
    {[audioUrl |-> TRUE, assets |-> s, audioDuration |-> t] :
        s \in UNION {[1..n -> ClipAssets] : n \in 1..MaxAssets},
        t \in 0..MaxBuildDuration}

\* projects the archive view can open
ArchivedProjects ==
    {[audioUrl |-> TRUE, assets |-> <<ImageAsset>>, audioDuration |-> 1]}

VARIABLES appState, currentView, connectedChannel, isChannelModalOpen,
          generatedContent, isProcessingVideo, pass, draw, api, archive

vars == <<appState, currentView, connectedChannel, isChannelModalOpen,
          generatedContent, isProcessingVideo, pass, draw, api, archive>>

\* everything but the render passes
appVars == <<appState, currentView, connectedChannel, isChannelModalOpen,
             generatedContent, isProcessingVideo, draw, api, archive>>

\* a renderVideoBlob invocation that has not been made yet
IdlePass ==
    [kind |-> "none", pc |-> "idle", promise |-> "none", caller |-> "none",
     live |-> FALSE, chan |-> FALSE, content |-> EmptyContent, loaded |-> 0,
     audioCtx |-> "none", recorder |-> "none", source |-> "none",
     timeline |-> <<>>,
     elapsed |-> 0, frames |-> 0, active |-> 0, fallback |-> FALSE,
     drawn |-> 0, rafs |-> 0, stops |-> 0, vidTime |-> <<>>,
     emitted |-> 0, sizes |-> <<>>, chunks |-> <<>>, value |-> <<>>, err |-> "",
     errored |-> FALSE, stopSeen |-> FALSE, sink |-> "none",
     cancelled |-> ""]

\* ------------------------------------------------------- timeline builder
\* duration of one occurrence of an asset: 5 for an image, `duration || 5`
\* for a video
SegmentDurationMutFixed(asset) == DefaultImageDuration

SegmentDuration(asset) ==
    IF asset.type = "video"
      THEN (IF asset.duration = 0 \/ asset.duration = NaN
              THEN DefaultImageDuration ELSE asset.duration)
      ELSE DefaultImageDuration

\* the entry timeline.push adds for the occurrence assetIdx, placed at cursor
TimelineItemMutDefaultEnd(assets, assetIdx, cursor) ==
    LET asset == assets[(assetIdx % Len(assets)) + 1]
    IN  [assetIndex |-> assetIdx,
         start |-> cursor,
         end |-> cursor + DefaultImageDuration,
         type |-> asset.type,
         element |-> assetIdx % Len(assets),
         duration |-> SegmentDuration(asset)]

TimelineItem(assets, assetIdx, cursor) ==
    LET asset == assets[(assetIdx % Len(assets)) + 1]
    IN  [assetIndex |-> assetIdx,
         start |-> cursor,
         end |-> cursor + SegmentDuration(asset),
         type |-> asset.type,
         element |-> assetIdx % Len(assets),
         duration |-> SegmentDuration(asset)]

\* while (cursor < totalDuration) { ... cursor += duration; assetIdx++; }
RECURSIVE BuildFrom(_, _, _, _, _)
BuildFrom(assets, totalDuration, cursor, assetIdx, timeline) ==
    IF cursor < totalDuration
      THEN LET item == TimelineItem(assets, assetIdx, cursor)
           IN  BuildFrom(assets, totalDuration, cursor + item.duration,
                         assetIdx + 1, Append(timeline, item))
      ELSE timeline

BuildTimelineMutTruncate(assets, totalDuration) ==
    LET tl == BuildFrom(assets, totalDuration, 0, 0, <<>>)
    IN  [i \in 1..Len(tl) |->
            IF i = Len(tl) THEN [tl[i] EXCEPT !.end = totalDuration] ELSE tl[i]]

BuildTimelineMutExtraItem(assets, totalDuration) ==
    LET tl == BuildFrom(assets, totalDuration, 0, 0, <<>>)
    IN  IF Len(assets) = 0 THEN tl
        ELSE Append(tl, TimelineItem(assets, Len(tl),
                                     IF Len(tl) = 0 THEN 0 ELSE tl[Len(tl)].end))

BuildTimeline(assets, totalDuration) == BuildFrom(assets, totalDuration, 0, 0, <<>>)

\* timeline.find(t => elapsed >= t.start && elapsed < t.end): index or 0
CoversMutInclusive(seg, elapsed) == elapsed >= seg.start /\ elapsed <= seg.end

CoversMutEndOwned(seg, elapsed) == elapsed > seg.start /\ elapsed <= seg.end

Covers(seg, elapsed) == elapsed >= seg.start /\ elapsed < seg.end

FindSegment(timeline, elapsed) ==
    LET hits == {i \in 1..Len(timeline) : Covers(timeline[i], elapsed)}
    IN  IF hits = {} THEN 0
        ELSE CHOOSE i \in hits : \A j \in hits : i <= j

\* ... || timeline[timeline.length-1]; 0 when the timeline is empty
ActiveItem(timeline, elapsed) ==
    IF FindSegment(timeline, elapsed) # 0
      THEN FindSegment(timeline, elapsed)
      ELSE Len(timeline)

\* ------------------------------------------------------ drawImageContain
\* canvas.width and canvas.height: 1920x1080, or 1080x1920 for '9:16'
Canvases == {[w |-> 1920, h |-> 1080], [w |-> 1080, h |-> 1920]}

\* the quotients of drawImageContain are kept exact: <<n, d>> is n / d, d > 0
FracLeq(a, b) == a[1] * b[2] <= b[1] * a[2]
FracEq(a, b) == a[1] * b[2] = b[1] * a[2]
FracAdd(a, b) == <<a[1] * b[2] + b[1] * a[2], a[2] * b[2]>>
FracTimes(a, k) == <<a[1] * k, a[2]>>

NoRect ==
    [drawn |-> FALSE, renderW |-> <<0, 1>>, renderH |-> <<0, 1>>,
     offsetX |-> <<0, 1>>, offsetY |-> <<0, 1>>]

NoDraw ==
    [img |-> [w |-> 0, h |-> 0], canvas |-> [w |-> 0, h |-> 0],
     called |-> FALSE, rect |-> NoRect]

\* imgAspect > canvasAspect, with imgAspect = imgWidth / imgHeight and
\* canvasAspect = cw / ch
WiderThanCanvasMutFlipped(img, cw, ch) == img.w * ch < cw * img.h

WiderThanCanvas(img, cw, ch) == img.w * ch > cw * img.h

\* the rectangle drawImageContain hands to ctx.drawImage, or no drawing when
\* the source has no width or no height
DrawImageContain(img, cw, ch) ==
    IF img.w = 0 \/ img.h = 0
      THEN NoRect
      ELSE IF WiderThanCanvas(img, cw, ch)
             THEN [drawn |-> TRUE,
                   renderW |-> <<cw, 1>>,
                   renderH |-> <<cw * img.h, img.w>>,
                   offsetX |-> <<0, 1>>,
                   offsetY |-> <<ch * img.w - cw * img.h, 2 * img.w>>]
             ELSE [drawn |-> TRUE,
                   renderH |-> <<ch, 1>>,
                   renderW |-> <<ch * img.w, img.h>>,
                   offsetY |-> <<0, 1>>,
                   offsetX |-> <<cw * img.h - ch * img.w, 2 * img.h>>]

\* drawImageContain(ctx, img, canvas.width, canvas.height)
DrawImageContainCall ==
    /\ ~draw.called
    /\ draw.canvas \in Canvases
    /\ draw' = [draw EXCEPT !.called = TRUE,
                            !.rect = DrawImageContain(draw.img, draw.canvas.w,
                                                      draw.canvas.h)]
    /\ UNCHANGED <<appState, currentView, connectedChannel, isChannelModalOpen,
                   generatedContent, isProcessingVideo, pass, api, archive>>

\* ---------------------------------------------- enforceSpacing, callWithRetry
Callers == 1..MaxCallers

\* what the wrapped function can do: return, or throw an error of one class
Outcomes == {"ok", "rateLimit", "serverOverload", "networkError", "other"}

\* the step by which the clock is moved while nothing is due
ClockGrain == MIN_REQUEST_SPACING \div 2

IdleCaller ==
    [pc |-> "idle", retries |-> 0, delay |-> 0, wake |-> 0, calls |-> 0,
     raised |-> "", err |-> "", result |-> ""]

NoApi ==
    [now |-> MIN_REQUEST_SPACING, lastRequestTime |-> 0, ticks |-> 0,
     starts |-> <<>>, caller |-> [c \in Callers |-> IdleCaller]]

\* return await fn(): the wrapped function is invoked
InvokeFn(a, c) ==
    [a EXCEPT !.starts = Append(@, a.now),
              !.caller[c].pc = "fn",
              !.caller[c].calls = @ + 1]

\* enforceSpacing up to its await, or to its end when there is nothing to
\* wait for
EnforceSpacing(a, c) ==
    IF a.now - a.lastRequestTime < MIN_REQUEST_SPACING
      THEN [a EXCEPT !.caller[c].pc = "spacing",
                     !.caller[c].wake = a.lastRequestTime + MIN_REQUEST_SPACING]
      ELSE InvokeFn([a EXCEPT !.lastRequestTime = a.now], c)

\* callWithRetry(fn, retries, delay) up to its first await that waits
CallWithRetry(a, c, retries, delay) ==
    EnforceSpacing([a EXCEPT !.caller[c].retries = retries,
                             !.caller[c].delay = delay], c)

\* isRateLimit || isServerOverload || isNetworkError
RetryableMutAll(e) == TRUE

Retryable(e) == e \in {"rateLimit", "serverOverload", "networkError"}

\* waitTime = isRateLimit ? Math.max(delay, 15000) : delay
WaitTime(e, delay) ==
    IF e = "rateLimit" /\ delay < RateLimitWait THEN RateLimitWait ELSE delay

\* the catch block: wait and retry, or throw error
Catch(a, c, e) ==
    IF a.caller[c].retries > 0 /\ Retryable(e)
      THEN [a EXCEPT !.caller[c].pc = "backoff",
                     !.caller[c].delay = WaitTime(e, @),
                     !.caller[c].wake = a.now + WaitTime(e, a.caller[c].delay)]
      ELSE [a EXCEPT !.caller[c].pc = "thrown", !.caller[c].err = e]

\* some code calls callWithRetry(fn) with the default retries and delay
ApiCall(c) ==
    /\ api.caller[c].pc = "idle"
    /\ api' = CallWithRetry(api, c, DefaultRetries, DefaultDelay)
    /\ UNCHANGED <<appState, currentView, connectedChannel, isChannelModalOpen,
                   generatedContent, isProcessingVideo, pass, draw, archive>>

\* the timer of enforceSpacing fires: lastRequestTime = Date.now(), then fn()
SpacingElapsed(c) ==
    /\ api.caller[c].pc = "spacing"
    /\ api.now >= api.caller[c].wake
    /\ api' = InvokeFn([api EXCEPT !.lastRequestTime = api.now], c)
    /\ UNCHANGED <<appState, currentView, connectedChannel, isChannelModalOpen,
                   generatedContent, isProcessingVideo, pass, draw, archive>>

\* the promise of fn() settles with one of the given outcomes
FnSettles(c, outcomes) ==
    /\ api.caller[c].pc = "fn"
    /\ \E o \in outcomes :
         api' = IF o = "ok"
                  THEN [api EXCEPT !.caller[c].pc = "returned",
                                   !.caller[c].result = "ok"]
                  ELSE Catch([api EXCEPT !.caller[c].raised = o], c, o)
    /\ UNCHANGED <<appState, currentView, connectedChannel, isChannelModalOpen,
                   generatedContent, isProcessingVideo, pass, draw, archive>>

\* the timer of the catch block fires:
\* return callWithRetry(fn, retries - 1, waitTime * 1.5)
BackoffElapsed(c) ==
    /\ api.caller[c].pc = "backoff"
    /\ api.now >= api.caller[c].wake
    /\ api' = CallWithRetry(api, c, api.caller[c].retries - 1,
                            (api.caller[c].delay * 3) \div 2)
    /\ UNCHANGED <<appState, currentView, connectedChannel, isChannelModalOpen,
                   generatedContent, isProcessingVideo, pass, draw, archive>>

\* the timers that are pending
Wakes == {api.caller[c].wake : c \in {d \in Callers : api.caller[d].pc \in {"spacing", "backoff"}}}

\* time passes while a caller has not called yet or a request is in flight
TimePasses ==
    /\ api.ticks < MaxTicks
    /\ \E c \in Callers : api.caller[c].pc \in {"idle", "fn"}
    /\ api' = [api EXCEPT !.now = @ + ClockGrain, !.ticks = @ + 1]
    /\ UNCHANGED <<appState, currentView, connectedChannel, isChannelModalOpen,
                   generatedContent, isProcessingVideo, pass, draw, archive>>

\* time passes until the earliest pending timer is due
TimerDue ==
    /\ \E w \in Wakes :
         /\ w > api.now
         /\ \A v \in Wakes : w <= v
         /\ api' = [api EXCEPT !.now = w]
    /\ UNCHANGED <<appState, currentView, connectedChannel, isChannelModalOpen,
                   generatedContent, isProcessingVideo, pass, draw, archive>>

\* ------------------------------------ saveToArchive, deleteArchivedProject
Ops == 1..MaxOps

IdleOp == [kind |-> "none", id |-> 0, pc |-> "idle", local |-> <<>>]

NoArchive ==
    [data |-> {}, index |-> <<>>, deleted |-> {}, op |-> [o \in Ops |-> IdleOp]]

\* index.filter(i => i.id !== id)
WithoutId(index, id) == SelectSeq(index, LAMBDA i : i # id)

\* saveToArchive(content) up to `await put(id, storedContent)`
SaveToArchive(o) ==
    /\ archive.op[o].pc = "idle"
    /\ archive' = [archive EXCEPT !.op[o] = [kind |-> "save", id |-> o,
                                              pc |-> "data", local |-> <<>>]]
    /\ UNCHANGED <<appState, currentView, connectedChannel, isChannelModalOpen,
                   generatedContent, isProcessingVideo, pass, draw, api>>

\* deleteArchivedProject(id), for a project the archive view lists, up to
\* `await del(id)`
DeleteArchivedProject(o) ==
    /\ archive.op[o].pc = "idle"
    /\ \E i \in 1..Len(archive.index) :
         archive' = [archive EXCEPT !.op[o] = [kind |-> "delete",
                                               id |-> archive.index[i],
                                               pc |-> "data", local |-> <<>>],
                                    !.deleted = @ \cup {archive.index[i]}]
    /\ UNCHANGED <<appState, currentView, connectedChannel, isChannelModalOpen,
                   generatedContent, isProcessingVideo, pass, draw, api>>

\* put(id, storedContent) or del(id) completes
DataWritten(o) ==
    /\ archive.op[o].pc = "data"
    /\ archive' = [archive EXCEPT
                     !.data = IF archive.op[o].kind = "save"
                                THEN @ \cup {archive.op[o].id}
                                ELSE @ \ {archive.op[o].id},
                     !.op[o].pc = "getIndex"]
    /\ UNCHANGED <<appState, currentView, connectedChannel, isChannelModalOpen,
                   generatedContent, isProcessingVideo, pass, draw, api>>

\* const index = (await get(ARCHIVE_INDEX_KEY)) || []
IndexRead(o) ==
    /\ archive.op[o].pc = "getIndex"
    /\ archive' = [archive EXCEPT !.op[o].local = archive.index,
                                   !.op[o].pc = "putIndex"]
    /\ UNCHANGED <<appState, currentView, connectedChannel, isChannelModalOpen,
                   generatedContent, isProcessingVideo, pass, draw, api>>

\* index.unshift(indexItem), or index.filter(...); put(ARCHIVE_INDEX_KEY, ...)
IndexWritten(o) ==
    /\ archive.op[o].pc = "putIndex"
    /\ archive' = [archive EXCEPT
                     !.index = IF archive.op[o].kind = "save"
                                 THEN <<archive.op[o].id>> \o archive.op[o].local
                                 ELSE WithoutId(archive.op[o].local, archive.op[o].id),
                     !.op[o].pc = "done"]
    /\ UNCHANGED <<appState, currentView, connectedChannel, isChannelModalOpen,
                   generatedContent, isProcessingVideo, pass, draw, api>>

\* ------------------------------------------------------ promise semantics
\* resolve / reject of the promise renderVideoBlob returns: only the first
\* settlement has an effect
Resolve(ps, blob) ==
    IF ps.promise = "pending"
      THEN [ps EXCEPT !.promise = "resolved", !.value = blob]
      ELSE ps

Reject(ps, e) ==
    IF ps.promise = "pending"
      THEN [ps EXCEPT !.promise = "rejected", !.err = e]
      ELSE ps

\* ------------------------------------------------------- render pass state
TotalDuration(ps) == ps.content.audioDuration

\* the phase of the Render/Encode Loop state machine a pass is in
Phase(ps) ==
    CASE ps.promise = "resolved" -> "Done"
      [] ps.promise = "rejected" -> "Failed"
      [] ps.pc = "idle" -> "Idle"
      [] ps.pc \in {"loadAssets", "fetchAudio", "decodeAudio", "buildTimeline"} -> "Priming"
      [] ps.pc \in {"started", "raf"} -> "Rendering"
      [] OTHER -> "Finalizing"

Active(ps) == ps.kind # "none" /\ ps.promise = "pending"

\* a synchronous section is running: the promise executor of a pass up to
\* its first renderLoop call, or the continuation of an awaiting click handler
Busy ==
    \E p \in Passes :
        \/ pass[p].pc \in {"buildTimeline", "started"}
        \/ pass[p].caller = "awaiting" /\ pass[p].promise \in {"resolved", "rejected"}

\* ProductionMonitor is rendered by App
MountedIn(view, st) == view = "dashboard" /\ st # "IDLE"
Mounted == MountedIn(currentView, appState)

\* the component instance that started the passes is gone
Unmounted(ps) == [p \in Passes |-> [ps[p] EXCEPT !.live = FALSE]]

NextFree(p) ==
    /\ pass[p].kind = "none"
    /\ IF p = 1 THEN TRUE ELSE pass[p - 1].kind # "none"

\* ------------------------------------------------------- renderVideoBlob
MissingContentMutAudioOnly(content) == ~content.audioUrl

MissingContent(content) == ~content.audioUrl \/ Len(content.assets) = 0

\* renderVideoBlob up to its first await
RenderVideoBlobCall(ps) ==
    IF MissingContent(ps.content)
      THEN [Reject(ps, "Missing content") EXCEPT !.pc = "returned"]
      ELSE IF Len(ps.content.assets) = 0
             THEN [ps EXCEPT !.pc = "fetchAudio", !.audioCtx = "running"]
             ELSE [ps EXCEPT !.pc = "loadAssets"]

StartPass(k) ==
    RenderVideoBlobCall(
        [IdlePass EXCEPT !.kind = k, !.promise = "pending", !.caller = "awaiting",
                         !.live = TRUE, !.chan = connectedChannel,
                         !.content = generatedContent])

ButtonsEnabled == Mounted /\ appState = "READY_TO_PUBLISH" /\ ~isProcessingVideo

HandleDownloadVideo(p) ==
    /\ ~Busy
    /\ ButtonsEnabled
    /\ NextFree(p)
    /\ isProcessingVideo' = TRUE
    /\ pass' = [pass EXCEPT ![p] = StartPass("download")]
    /\ UNCHANGED <<draw, api, archive>>
    /\ UNCHANGED <<appState, currentView, connectedChannel, isChannelModalOpen,
                   generatedContent>>

HandlePublishClick(p) ==
    /\ ~Busy
    /\ ButtonsEnabled
    /\ NextFree(p)
    /\ isProcessingVideo' = TRUE
    /\ pass' = [pass EXCEPT ![p] = StartPass("upload")]
    /\ UNCHANGED <<draw, api, archive>>
    /\ UNCHANGED <<appState, currentView, connectedChannel, isChannelModalOpen,
                   generatedContent>>

\* loadAsset: onload / onloadedmetadata of one asset; when the last one has
\* loaded Promise.all resolves and the audio context is created
AssetLoadedStepMutRace(ps) ==
    [ps EXCEPT !.loaded = @ + 1, !.pc = "fetchAudio", !.audioCtx = "running"]

AssetLoadedStep(ps) ==
    IF ps.loaded + 1 = Len(ps.content.assets)
      THEN [ps EXCEPT !.loaded = @ + 1, !.pc = "fetchAudio", !.audioCtx = "running"]
      ELSE [ps EXCEPT !.loaded = @ + 1]

AssetLoaded(p) ==
    /\ ~Busy
    /\ pass[p].pc = "loadAssets"
    /\ pass' = [pass EXCEPT ![p] = AssetLoadedStep(pass[p])]
    /\ UNCHANGED appVars

\* loadAsset: onerror of one asset rejects Promise.all
AssetErrorStepMutContinue(ps) == Reject(AssetLoadedStep(ps), "AssetLoadError")

AssetErrorStep(ps) == [Reject(ps, "AssetLoadError") EXCEPT !.pc = "returned"]

AssetError(p) ==
    /\ ~Busy
    /\ pass[p].pc = "loadAssets"
    /\ pass' = [pass EXCEPT ![p] = AssetErrorStep(pass[p])]
    /\ UNCHANGED appVars

\* fetch(content.audioUrl) and arrayBuffer()
AudioFetched(p) ==
    /\ ~Busy
    /\ pass[p].pc = "fetchAudio"
    /\ \E ok \in BOOLEAN :
         pass' = [pass EXCEPT ![p] =
                    IF ok THEN [@ EXCEPT !.pc = "decodeAudio"]
                    ELSE [Reject(@, "AudioFetchError") EXCEPT !.pc = "returned"]]
    /\ UNCHANGED appVars

\* the promise executor up to the timeline loop: recorder.start();
\* sourceNode.start(0)
StartRecording(ps) ==
    [ps EXCEPT !.recorder = "recording", !.source = "started", !.pc = "buildTimeline"]

\* the timeline loop of the promise executor
StartRendering(ps) ==
    IF Len(ps.content.assets) = 0 /\ 0 < TotalDuration(ps)
      THEN [Reject(ps, "TypeError") EXCEPT !.pc = "returned"]
      ELSE [ps EXCEPT !.pc = "started",
                      !.timeline = BuildTimeline(ps.content.assets, TotalDuration(ps))]

\* decodeAudioData settles; new MediaRecorder may throw NotSupportedError
AudioDecoded(p) ==
    /\ ~Busy
    /\ pass[p].pc = "decodeAudio"
    /\ \E outcome \in {"ok", "AudioDecodeError", "NotSupportedError"} :
         pass' = [pass EXCEPT ![p] =
                    IF outcome = "ok" THEN StartRecording(@)
                    ELSE [Reject(@, outcome) EXCEPT !.pc = "returned"]]
    /\ UNCHANGED appVars

\* the executor runs on, in the same task, and builds the timeline
TimelineBuilt(p) ==
    /\ pass[p].pc = "buildTimeline"
    /\ pass' = [pass EXCEPT ![p] = StartRendering(@)]
    /\ UNCHANGED appVars

\* ------------------------------------------------------------ renderLoop
\* the test that ends the loop: elapsed >= totalDuration
LoopDoneMutEarly(elapsed, totalDuration) == elapsed + 1 >= totalDuration

LoopDone(elapsed, totalDuration) == elapsed >= totalDuration

\* recorder.stop(): the state becomes inactive and the user agent queues the
\* task that fires dataavailable and stop
RecorderStopMutNoop(ps) == ps

RecorderStop(ps) ==
    [ps EXCEPT !.stops = @ + 1,
               !.recorder = IF @ = "recording" THEN "stopping" ELSE @]

\* vidTime = (elapsed - activeItem.start) % activeItem.duration
SeekOffsetMutNoStart(elapsed, item) == elapsed % item.duration

SeekOffset(elapsed, item) == (elapsed - item.start) % item.duration

\* vid.currentTime = vidTime, for a video item only: <<vidTime>>, or <<>>
VideoSeek(timeline, elapsed) ==
    IF ActiveItem(timeline, elapsed) # 0
         /\ timeline[ActiveItem(timeline, elapsed)].type = "video"
      THEN <<SeekOffset(elapsed, timeline[ActiveItem(timeline, elapsed)])>>
      ELSE <<>>

\* the frame drawn for the active item, then requestAnimationFrame
CompositeFrame(ps, elapsed) ==
    [ps EXCEPT !.elapsed = elapsed,
               !.active = ActiveItem(ps.timeline, elapsed),
               !.fallback = @ \/ FindSegment(ps.timeline, elapsed) = 0,
               !.frames = IF ActiveItem(ps.timeline, elapsed) # 0 /\ @ < MaxFrames
                            THEN @ + 1 ELSE @,
               !.drawn = IF ActiveItem(ps.timeline, elapsed) # 0 THEN 1 ELSE 0,
               !.vidTime = VideoSeek(ps.timeline, elapsed),
               !.rafs = 1,
               !.pc = "raf"]

RenderLoopStep(ps, elapsed) ==
    IF LoopDone(elapsed, TotalDuration(ps))
      THEN [RecorderStop(ps) EXCEPT !.elapsed = elapsed, !.stopSeen = TRUE,
                                    !.drawn = 0, !.vidTime = <<>>, !.rafs = 0,
                                    !.pc = "loopEnded"]
      ELSE CompositeFrame(ps, elapsed)

\* the first call of renderLoop, made by the promise executor itself:
\* audioCtx.currentTime has not moved since startTime was read
RenderLoopFirst(p) ==
    /\ pass[p].pc = "started"
    /\ pass' = [pass EXCEPT ![p] = RenderLoopStep(@, 0)]
    /\ UNCHANGED appVars

\* a requestAnimationFrame callback; the audio clock has advanced by d since
\* the previous call, and stands still once the audio context is closed
RenderLoop(p) ==
    /\ ~Busy
    /\ pass[p].pc = "raf"
    /\ \E d \in 0..MaxClockStep :
         /\ pass[p].audioCtx # "running" => d = 0
         /\ pass' = [pass EXCEPT ![p] = RenderLoopStep(@, @.elapsed + d)]
    /\ UNCHANGED appVars

\* ----------------------------------------------------- MediaRecorder events
\* recorder.ondataavailable: if (e.data.size > 0) chunks.push(e.data);
\* the data of the n-th event is written n
OnDataAvailableMutUnshift(ps, size) ==
    [ps EXCEPT !.emitted = @ + 1,
               !.sizes = Append(@, size),
               !.chunks = IF size > 0 THEN <<ps.emitted + 1>> \o @ ELSE @]

OnDataAvailable(ps, size) ==
    [ps EXCEPT !.emitted = @ + 1,
               !.sizes = Append(@, size),
               !.chunks = IF size > 0 THEN Append(@, ps.emitted + 1) ELSE @]

DataAvailable(p) ==
    /\ ~Busy
    /\ pass[p].recorder = "recording"
    /\ pass[p].emitted + 1 < MaxChunks
    /\ \E size \in 0..1 :
         pass' = [pass EXCEPT ![p] = OnDataAvailable(@, size)]
    /\ UNCHANGED appVars

\* recorder.onerror: audioCtx.close(); reject(e)
OnErrorMutSwallow(ps) == [ps EXCEPT !.audioCtx = "closed"]

OnError(ps) == Reject([ps EXCEPT !.audioCtx = "closed"], "EncoderError")

\* the encoder fails while recording or while flushing after stop(); the user
\* agent fires error and then stops the recorder
RecorderError(p) ==
    /\ ~Busy
    /\ pass[p].recorder \in {"recording", "stopping"}
    /\ ~pass[p].errored
    /\ pass' = [pass EXCEPT ![p] =
                  [OnError(@) EXCEPT !.errored = TRUE, !.recorder = "stopping"]]
    /\ UNCHANGED appVars

\* recorder.onstop: new Blob(chunks); audioCtx.close(); resolve(blob)
OnStopMutNoResolve(ps) == [ps EXCEPT !.audioCtx = "closed"]

OnStop(ps) == Resolve([ps EXCEPT !.audioCtx = "closed"], ps.chunks)

\* the task queued by the stop: a last dataavailable, then stop
RecorderStopTask(p) ==
    /\ ~Busy
    /\ pass[p].recorder = "stopping"
    /\ \E size \in 0..1 :
         pass' = [pass EXCEPT ![p] =
                    [OnStop(OnDataAvailable(@, size)) EXCEPT !.recorder = "inactive"]]
    /\ UNCHANGED appVars

\* ------------------------------------------------- the awaiting click handler
\* handleDownloadVideo after `await renderVideoBlob()`: save the blob, or
\* alert; finally setIsProcessingVideo(false)
DownloadContinue(p) ==
    /\ pass[p].kind = "download"
    /\ pass[p].caller = "awaiting"
    /\ pass[p].promise \in {"resolved", "rejected"}
    /\ pass' = [pass EXCEPT ![p] =
                  [@ EXCEPT !.caller = "done",
                            !.sink = IF pass[p].promise = "resolved"
                                       THEN "downloaded" ELSE "alert"]]
    /\ isProcessingVideo' = (IF pass[p].live THEN FALSE ELSE isProcessingVideo)
    /\ UNCHANGED <<draw, api, archive>>
    /\ UNCHANGED <<appState, currentView, connectedChannel, isChannelModalOpen,
                   generatedContent>>

\* handlePublishClick after the await: onPublish(blob), which is handlePublish
\* of the render the click was made in; or alert and setIsProcessingVideo(false)
PublishContinue(p) ==
    /\ pass[p].kind = "upload"
    /\ pass[p].caller = "awaiting"
    /\ pass[p].promise \in {"resolved", "rejected"}
    /\ IF pass[p].promise = "rejected"
         THEN /\ pass' = [pass EXCEPT ![p] = [@ EXCEPT !.caller = "done", !.sink = "alert"]]
              /\ isProcessingVideo' = (IF pass[p].live THEN FALSE ELSE isProcessingVideo)
              /\ UNCHANGED <<appState, isChannelModalOpen>>
         ELSE IF ~pass[p].chan
                THEN /\ pass' = [pass EXCEPT ![p] =
                                   [@ EXCEPT !.caller = "done", !.sink = "published"]]
                     /\ isChannelModalOpen' = TRUE
                     /\ UNCHANGED <<appState, isProcessingVideo>>
                ELSE /\ pass' = [pass EXCEPT ![p] =
                                   [@ EXCEPT !.caller = "done", !.sink = "uploading"]]
                     /\ appState' = "PUBLISHING"
                     /\ UNCHANGED <<isChannelModalOpen, isProcessingVideo>>
    /\ UNCHANGED <<draw, api, archive>>
    /\ UNCHANGED <<currentView, connectedChannel, generatedContent>>

\* uploadVideoToYouTube settles inside handlePublish
UploadSettled(p) ==
    /\ ~Busy
    /\ pass[p].sink = "uploading"
    /\ \E ok \in BOOLEAN :
         /\ pass' = [pass EXCEPT ![p] =
                       [@ EXCEPT !.sink = IF ok THEN "uploaded" ELSE "uploadFailed"]]
         /\ appState' = (IF ok THEN "PUBLISHED" ELSE "READY_TO_PUBLISH")
    /\ UNCHANGED <<draw, api, archive>>
    /\ UNCHANGED <<currentView, connectedChannel, isChannelModalOpen,
                   generatedContent, isProcessingVideo>>

\* ------------------------------------------------------------- App actions
\* the passes a reset finds in progress remember the phase they were in
MarkCancelled(ps) ==
    [p \in Passes |->
        IF Active(ps[p]) /\ ps[p].cancelled = ""
          THEN [ps[p] EXCEPT !.cancelled = Phase(ps[p])]
          ELSE ps[p]]

\* handleReset, the "Cancel / Start Over" button of ProductionMonitor
HandleReset ==
    /\ ~Busy
    /\ Mounted
    /\ appState' = "IDLE"
    /\ generatedContent' = EmptyContent
    /\ isProcessingVideo' = FALSE
    /\ pass' = Unmounted(MarkCancelled(pass))
    /\ UNCHANGED <<draw, api, archive>>
    /\ UNCHANGED <<currentView, connectedChannel, isChannelModalOpen>>

\* Header onViewChange / ArchiveView onClose: setCurrentView
ViewChange ==
    /\ ~Busy
    /\ \E view \in {"dashboard", "archive"} :
         /\ view # currentView
         /\ currentView' = view
         /\ IF Mounted /\ ~MountedIn(view, appState)
              THEN /\ isProcessingVideo' = FALSE
                   /\ pass' = Unmounted(pass)
              ELSE UNCHANGED <<isProcessingVideo, pass>>
    /\ UNCHANGED <<draw, api, archive>>
    /\ UNCHANGED <<appState, connectedChannel, isChannelModalOpen, generatedContent>>

\* handleOpenProject from the archive view
HandleOpenProject ==
    /\ ~Busy
    /\ currentView = "archive"
    /\ \E content \in ArchivedProjects :
         generatedContent' = content
    /\ appState' = "READY_TO_PUBLISH"
    /\ currentView' = "dashboard"
    /\ UNCHANGED <<draw, api, archive>>
    /\ UNCHANGED <<connectedChannel, isChannelModalOpen, isProcessingVideo, pass>>

\* the token callback of initAuth sets the channel; handleLogout clears it
ChannelChange ==
    /\ ~Busy
    /\ connectedChannel' = ~connectedChannel
    /\ UNCHANGED <<draw, api, archive>>
    /\ UNCHANGED <<appState, currentView, isChannelModalOpen, generatedContent,
                   isProcessingVideo, pass>>

\* ---------------------------------------------------------- specifications
NoPasses == [p \in Passes |-> IdlePass]

PassNext(p) ==
    \/ AssetLoaded(p)
    \/ AssetError(p)
    \/ AudioFetched(p)
    \/ AudioDecoded(p)
    \/ TimelineBuilt(p)
    \/ RenderLoopFirst(p)
    \/ RenderLoop(p)
    \/ DataAvailable(p)
    \/ RecorderError(p)
    \/ RecorderStopTask(p)
    \/ DownloadContinue(p)
    \/ PublishContinue(p)
    \/ UploadSettled(p)

\* Spec: one render pass of a production that is READY_TO_PUBLISH, on every
\* content of RenderContents, under every behaviour of the loaders, the audio
\* clock and the encoder
Init ==
    /\ currentView = "dashboard"
    /\ connectedChannel \in BOOLEAN
    /\ isChannelModalOpen = FALSE
    /\ isProcessingVideo = FALSE
    /\ pass = NoPasses
    /\ draw = NoDraw
    /\ api = NoApi
    /\ archive = NoArchive
    /\ appState = "READY_TO_PUBLISH"
    /\ generatedContent \in RenderContents

Next ==
    \/ HandleDownloadVideo(1)
    \/ HandlePublishClick(1)
    \/ PassNext(1)

Spec == Init /\ [][Next]_vars

\* SpecApp: the App after restoreSession (nothing saved, or a saved
\* production), its buttons and views, and up to MaxPasses render passes; the
\* encoder here delivers its data on stop and reports no error, and every
\* asset loads
InitApp ==
    /\ currentView = "dashboard"
    /\ connectedChannel = FALSE
    /\ isChannelModalOpen = FALSE
    /\ isProcessingVideo = FALSE
    /\ pass = NoPasses
    /\ draw = NoDraw
    /\ api = NoApi
    /\ archive = NoArchive
    /\ \/ appState = "IDLE" /\ generatedContent = EmptyContent
       \/ appState = "READY_TO_PUBLISH" /\ generatedContent \in ArchivedProjects

PassNextApp(p) ==
    \/ AssetLoaded(p)
    \/ AudioFetched(p)
    \/ AudioDecoded(p)
    \/ TimelineBuilt(p)
    \/ RenderLoopFirst(p)
    \/ RenderLoop(p)
    \/ RecorderStopTask(p)
    \/ DownloadContinue(p)
    \/ PublishContinue(p)
    \/ UploadSettled(p)

NextApp ==
    \/ \E p \in Passes : HandleDownloadVideo(p)
    \/ \E p \in Passes : HandlePublishClick(p)
    \/ \E p \in Passes : PassNextApp(p)
    \/ HandleReset
    \/ ViewChange
    \/ HandleOpenProject
    \/ ChannelChange

SpecApp == InitApp /\ [][NextApp]_vars

\* SpecSingle: one download pass on every content with a single asset and an
\* audio of up to MaxSingleDuration seconds; every asset loads and the encoder
\* delivers its data on stop
InitSingle ==
    /\ currentView = "dashboard"
    /\ connectedChannel = FALSE
    /\ isChannelModalOpen = FALSE
    /\ isProcessingVideo = FALSE
    /\ pass = NoPasses
    /\ draw = NoDraw
    /\ api = NoApi
    /\ archive = NoArchive
    /\ appState = "READY_TO_PUBLISH"
    /\ generatedContent \in SingleAssetContents

NextSingle ==
    \/ HandleDownloadVideo(1)
    \/ AssetLoaded(1)
    \/ AudioFetched(1)
    \/ AudioDecoded(1)
    \/ TimelineBuilt(1)
    \/ RenderLoopFirst(1)
    \/ RenderLoop(1)
    \/ RecorderStopTask(1)
    \/ DownloadContinue(1)

SpecSingle == InitSingle /\ [][NextSingle]_vars

\* SpecBuild: one download pass on every content of ClipContents; every asset
\* loads and the encoder delivers its data on stop
InitBuild ==
    /\ currentView = "dashboard"
    /\ connectedChannel = FALSE
    /\ isChannelModalOpen = FALSE
    /\ isProcessingVideo = FALSE
    /\ pass = NoPasses
    /\ draw = NoDraw
    /\ api = NoApi
    /\ archive = NoArchive
    /\ appState = "READY_TO_PUBLISH"
    /\ generatedContent \in ClipContents

SpecBuild == InitBuild /\ [][NextSingle]_vars

\* SpecRetry: one caller of callWithRetry, whose wrapped function returns or
\* throws an error of any class
InitService ==
    /\ currentView = "dashboard"
    /\ connectedChannel = FALSE
    /\ isChannelModalOpen = FALSE
    /\ isProcessingVideo = FALSE
    /\ pass = NoPasses
    /\ draw = NoDraw
    /\ api = NoApi
    /\ archive = NoArchive
    /\ appState = "IDLE"
    /\ generatedContent = EmptyContent

\* a request may have been made shortly before
InitRetry ==
    /\ currentView = "dashboard"
    /\ connectedChannel = FALSE
    /\ isChannelModalOpen = FALSE
    /\ isProcessingVideo = FALSE
    /\ pass = NoPasses
    /\ draw = NoDraw
    /\ \E last \in {0, NoApi.now - ClockGrain} :
         api = [NoApi EXCEPT !.lastRequestTime = last]
    /\ archive = NoArchive
    /\ appState = "IDLE"
    /\ generatedContent = EmptyContent

NextRetry ==
    \/ ApiCall(1)
    \/ SpacingElapsed(1)
    \/ FnSettles(1, Outcomes)
    \/ BackoffElapsed(1)
    \/ TimePasses
    \/ TimerDue

SpecRetry == InitRetry /\ [][NextRetry]_vars

\* SpecSpacing: up to MaxCallers concurrent callers of callWithRetry, whose
\* wrapped function returns or throws an error that is not retried
NextSpacing ==
    \/ \E c \in Callers : ApiCall(c)
    \/ \E c \in Callers : SpacingElapsed(c)
    \/ \E c \in Callers : FnSettles(c, {"ok", "other"})
    \/ TimePasses
    \/ TimerDue

SpecSpacing == InitService /\ [][NextSpacing]_vars

\* SpecArchive: up to MaxOps calls of saveToArchive and deleteArchivedProject
\* whose storage operations all succeed, on an archive that is empty or holds
\* one project
InitArchive ==
    /\ currentView = "dashboard"
    /\ connectedChannel = FALSE
    /\ isChannelModalOpen = FALSE
    /\ isProcessingVideo = FALSE
    /\ pass = NoPasses
    /\ draw = NoDraw
    /\ api = NoApi
    /\ \/ archive = NoArchive
       \/ archive = [NoArchive EXCEPT !.data = {0}, !.index = <<0>>]
    /\ appState = "IDLE"
    /\ generatedContent = EmptyContent

NextArchive ==
    \/ \E o \in Ops : SaveToArchive(o)
    \/ \E o \in Ops : DeleteArchivedProject(o)
    \/ \E o \in Ops : DataWritten(o)
    \/ \E o \in Ops : IndexRead(o)
    \/ \E o \in Ops : IndexWritten(o)

SpecArchive == InitArchive /\ [][NextArchive]_vars

\* SpecDraw: one call of drawImageContain for every natural size of the source
\* up to MaxSourceSize (0: the element has no size yet) and both canvases
InitDraw ==
    /\ currentView = "dashboard"
    /\ connectedChannel = FALSE
    /\ isChannelModalOpen = FALSE
    /\ isProcessingVideo = FALSE
    /\ pass = NoPasses
    /\ appState = "READY_TO_PUBLISH"
    /\ generatedContent = EmptyContent
    /\ api = NoApi
    /\ archive = NoArchive
    /\ draw \in {[img |-> [w |-> a, h |-> b], canvas |-> c, called |-> FALSE,
                   rect |-> NoRect] :
                     a \in 0..MaxSourceSize, b \in 0..MaxSourceSize, c \in Canvases}

NextDraw == DrawImageContainCall

SpecDraw == InitDraw /\ [][NextDraw]_vars

\* SpecLive: one render pass on the contents of RenderContents with at most
\* one asset, under every behaviour of the loaders, the audio clock and the
\* encoder, with the scheduling the browser provides.  The executor runs to
\* completion (TimelineBuilt, RenderLoopFirst); animation-frame callbacks keep
\* firing and the clock of a running audio context keeps advancing
\* (ClockTick); the task queued by recorder.stop() runs (RecorderStopTask).
InitLive ==
    /\ currentView = "dashboard"
    /\ connectedChannel \in BOOLEAN
    /\ isChannelModalOpen = FALSE
    /\ isProcessingVideo = FALSE
    /\ pass = NoPasses
    /\ draw = NoDraw
    /\ api = NoApi
    /\ archive = NoArchive
    /\ appState = "READY_TO_PUBLISH"
    /\ generatedContent \in {c \in RenderContents : Len(c.assets) <= 1}

ClockTick(p) == RenderLoop(p) /\ pass'[p].elapsed > pass[p].elapsed

SpecLive ==
    /\ InitLive
    /\ [][Next]_vars
    /\ WF_vars(TimelineBuilt(1))
    /\ WF_vars(RenderLoopFirst(1))
    /\ WF_vars(ClockTick(1))
    /\ WF_vars(RecorderStopTask(1))

\* ------------------------------------------------------------------ claims
\* the timeline of a pass has been built
Built(ps) == ps.pc \in {"started", "raf", "loopEnded"}

\* the blob of the pass has reached the caller's download or onPublish
Delivered(ps) ==
    ps.sink \in {"downloaded", "published", "uploading", "uploaded", "uploadFailed"}

\* C1: for a non-empty asset list and totalDuration > 0 the built timeline
\* starts at 0, each segment starts where the previous one ends, every segment
\* has end = start + duration with duration > 0, and the last segment ends at
\* or after totalDuration.
C1_TimelineContiguous ==
    \A p \in Passes :
        LET ps == pass[p]
            tl == ps.timeline
        IN  (Built(ps) /\ Len(ps.content.assets) > 0 /\ TotalDuration(ps) > 0) =>
                /\ Len(tl) > 0
                /\ tl[1].start = 0
                /\ \A i \in 2..Len(tl) : tl[i].start = tl[i - 1].end
                /\ \A i \in 1..Len(tl) :
                       tl[i].end = tl[i].start + tl[i].duration /\ tl[i].duration > 0
                /\ tl[Len(tl)].end >= TotalDuration(ps)

C1_Witness ==
    \E p \in Passes :
        /\ Built(pass[p])
        /\ Len(pass[p].timeline) >= 2
        /\ pass[p].timeline[1].type # pass[p].timeline[2].type
        /\ pass[p].timeline[2].end > TotalDuration(pass[p])

\* C2: for every elapsed time t with 0 <= t < totalDuration exactly one
\* segment has start <= t < end, it is the item the render loop selects for a
\* tick at t, and the fallback to the last segment is never used.
C2_ExactlyOneSegment ==
    \A p \in Passes :
        LET ps == pass[p]
            tl == ps.timeline
        IN  (Built(ps) /\ Len(ps.content.assets) > 0) =>
                /\ \A t \in 0..(TotalDuration(ps) - 1) :
                       /\ Cardinality({i \in 1..Len(tl) : Covers(tl[i], t)}) = 1
                       /\ ActiveItem(tl, t) \in 1..Len(tl)
                       /\ Covers(tl[ActiveItem(tl, t)], t)
                /\ ~ps.fallback
                /\ ps.pc = "raf" =>
                       /\ ps.active \in 1..Len(tl)
                       /\ tl[ps.active].start <= ps.elapsed
                       /\ ps.elapsed < tl[ps.active].end

C2_Witness ==
    \E p \in Passes :
        /\ pass[p].pc = "raf"
        /\ pass[p].active >= 2
        /\ pass[p].elapsed = pass[p].timeline[pass[p].active].start

\* C3: a pass moves only along Idle -> Priming -> Rendering -> Finalizing ->
\* Done, one phase at a time, or from a non-terminal phase to Failed; Done and
\* Failed are never left and the settled promise never changes.
PhaseMoves ==
    {<<"Idle", "Priming">>, <<"Priming", "Rendering">>,
     <<"Rendering", "Finalizing">>, <<"Finalizing", "Done">>}
    \cup {<<ph, "Failed">> : ph \in {"Idle", "Priming", "Rendering", "Finalizing"}}

C3_PhaseOrder ==
    [][\A p \in Passes :
          /\ \/ Phase(pass'[p]) = Phase(pass[p])
             \/ <<Phase(pass[p]), Phase(pass'[p])>> \in PhaseMoves
          /\ pass[p].promise \in {"resolved", "rejected"} =>
                 /\ pass'[p].promise = pass[p].promise
                 /\ pass'[p].value = pass[p].value
                 /\ pass'[p].err = pass[p].err]_vars

C3_Witness ==
    \E p \in Passes :
        /\ Phase(pass[p]) = "Failed"
        /\ pass[p].errored
        /\ pass[p].stopSeen
        /\ pass[p].recorder = "inactive"

\* C4: the caller receives a blob only if the render loop saw elapsed >=
\* totalDuration and stopped the encoder and no encoder error occurred, and
\* the blob holds every chunk; in every other finished run the caller gets the
\* error (an alert) and no blob.
C4_AllOrNothing ==
    \A p \in Passes :
        LET ps == pass[p]
        IN  /\ ps.promise = "resolved" =>
                   /\ ps.stopSeen
                   /\ ps.elapsed >= TotalDuration(ps)
                   /\ ~ps.errored
                   /\ ps.value = ps.chunks
            /\ Delivered(ps) => ps.promise = "resolved"
            /\ (ps.caller = "done" /\ ps.promise # "resolved") => ps.sink = "alert"

C4_Witness ==
    \E p \in Passes :
        /\ pass[p].sink = "downloaded"
        /\ Len(pass[p].value) = 2
        /\ pass[p].frames > 0

\* C5: a pass that "Cancel / Start Over" finds in Rendering is Failed, its
\* audio is stopped, and its blob is never downloaded or handed to onPublish.
C5_CancelAborts ==
    \A p \in Passes :
        pass[p].cancelled = "Rendering" =>
            /\ Phase(pass[p]) = "Failed"
            /\ pass[p].audioCtx # "running"
            /\ ~Delivered(pass[p])

\* C6: at most one render pass is active at any time.
C6_OneActivePass == Cardinality({p \in Passes : Active(pass[p])}) <= 1

\* C7: when an asset load or the audio fetch or decode fails, the pass is
\* Failed, the caller gets the error, the encoder was never created or
\* started, no frame was composited and no blob exists.
C7_PrimingFailure ==
    \A p \in Passes :
        LET ps == pass[p]
        IN  ps.err \in {"AssetLoadError", "AudioFetchError", "AudioDecodeError"} =>
                /\ Phase(ps) = "Failed"
                /\ ps.recorder = "none"
                /\ ps.frames = 0
                /\ ps.timeline = <<>>
                /\ ps.value = <<>>
                /\ ~Delivered(ps)
                /\ ps.caller = "done" => ps.sink = "alert"

C7_Witness ==
    \E p \in Passes :
        /\ pass[p].err = "AssetLoadError"
        /\ pass[p].loaded = 1
        /\ pass[p].sink = "alert"

\* C8: with zero assets the pass fails with an error at once: no asset is
\* loaded, no audio context or encoder is created, no tick of the render loop
\* runs.
C8_ZeroAssets ==
    \A p \in Passes :
        LET ps == pass[p]
        IN  (ps.kind # "none" /\ Len(ps.content.assets) = 0) =>
                /\ Phase(ps) = "Failed"
                /\ ps.err = "Missing content"
                /\ ps.pc = "returned"
                /\ ps.loaded = 0
                /\ ps.audioCtx = "none"
                /\ ps.recorder = "none"
                /\ ps.frames = 0
                /\ ~ps.stopSeen

C8_Witness ==
    \E p \in Passes :
        /\ pass[p].content.audioUrl
        /\ Len(pass[p].content.assets) = 0
        /\ pass[p].sink = "alert"

\* C9: a pass whose audio has totalDuration <= 0 fails when its timeline is
\* built: it never reaches Done, and once it is over it is Failed.
C9_InvalidDuration ==
    \A p \in Passes :
        LET ps == pass[p]
        IN  (Built(ps) /\ TotalDuration(ps) <= 0) =>
                /\ Phase(ps) # "Done"
                /\ ps.recorder = "inactive" => Phase(ps) = "Failed"

\* C10: a pass finalized with zero non-empty chunks fails instead of
\* resolving with an empty blob (stated for an audio of positive length, so
\* that the case is not the one of C9).
C10_EmptyOutput ==
    \A p \in Passes :
        LET ps == pass[p]
        IN  (ps.recorder = "inactive" /\ Len(ps.chunks) = 0 /\ TotalDuration(ps) > 0) =>
                Phase(ps) = "Failed"

\* the audio source node is still playing its buffer, which is totalDuration
\* long
Playing(ps) ==
    ps.source = "started" /\ ps.audioCtx = "running" /\ ps.elapsed < TotalDuration(ps)

\* the <<start, end>> pairs of a timeline
Spans(timeline) == [i \in 1..Len(timeline) |-> <<timeline[i].start, timeline[i].end>>]

\* C11 (as claimed): for a single image and totalDuration = 12 the built
\* timeline is exactly [0,5), [5,10), [10,12): three occurrences of the same
\* image, the end of the last one truncated to totalDuration.
C11_FinalSegmentTruncated ==
    \A p \in Passes :
        LET ps == pass[p]
        IN  (Built(ps) /\ ps.content.assets = <<ImageAsset>> /\ TotalDuration(ps) = 12) =>
                /\ Spans(ps.timeline) = << <<0, 5>>, <<5, 10>>, <<10, 12>> >>
                /\ \A i \in 1..Len(ps.timeline) : ps.timeline[i].element = 0

\* C11 (amended): for a single image and totalDuration = 12 the built
\* timeline is exactly [0,5), [5,10), [10,15): three occurrences of the same
\* image of 5 s each; the last one is not truncated, the render loop uses only
\* its first 2 s.
C11_ThreeOccurrences ==
    \A p \in Passes :
        LET ps == pass[p]
        IN  (Built(ps) /\ ps.content.assets = <<ImageAsset>> /\ TotalDuration(ps) = 12) =>
                /\ Spans(ps.timeline) = << <<0, 5>>, <<5, 10>>, <<10, 15>> >>
                /\ \A i \in 1..Len(ps.timeline) :
                       ps.timeline[i].element = 0 /\ ps.timeline[i].duration = 5
                /\ ps.pc = "raf" => ps.elapsed < 12
                /\ (ps.pc = "raf" /\ ps.elapsed >= 10) => ps.active = 3

C11_Witness ==
    \E p \in Passes :
        /\ pass[p].content.assets = <<ImageAsset>>
        /\ TotalDuration(pass[p]) = 12
        /\ pass[p].pc = "raf"
        /\ pass[p].elapsed = 11
        /\ pass[p].active = 3

\* C12: for a single asset whose occurrence lasts d > 0 and an audio of length
\* T > 0 the timeline has exactly ceil(T/d) segments, each of duration d; a
\* 10 s audio with one image gives 2 segments of 5 s, a 10 s audio with one
\* 12 s video gives 1 segment that spans the whole audio.
C12_SegmentCount ==
    \A p \in Passes :
        LET ps == pass[p]
            tl == ps.timeline
            T == TotalDuration(ps)
            a == ps.content.assets[1]
            d == IF a.type = "video" /\ a.duration > 0
                   THEN a.duration ELSE DefaultImageDuration
        IN  (Built(ps) /\ Len(ps.content.assets) = 1 /\ T > 0) =>
                /\ Len(tl) = (T + d - 1) \div d
                /\ \A i \in 1..Len(tl) :
                       tl[i].duration = d /\ tl[i].end - tl[i].start = d
                /\ (a.type = "image" /\ T = 10) =>
                       Spans(tl) = << <<0, 5>>, <<5, 10>> >>
                /\ (a.type = "video" /\ a.duration = 12 /\ T = 10) =>
                       /\ Len(tl) = 1
                       /\ tl[1].start = 0
                       /\ tl[1].end >= T

C12_Witness ==
    \E p \in Passes :
        /\ pass[p].content.assets = <<[type |-> "video", duration |-> 12]>>
        /\ TotalDuration(pass[p]) = 10
        /\ pass[p].pc = "raf"
        /\ pass[p].elapsed = 9
        /\ pass[p].active = 1

\* C13: when elapsed equals the boundary shared by segments i and i+1 and is
\* below totalDuration, the render loop selects segment i+1, never segment i.
C13_LaterSegmentOwnsBoundary ==
    \A p \in Passes :
        LET ps == pass[p]
            tl == ps.timeline
        IN  Built(ps) =>
                \A i \in 1..(Len(tl) - 1) :
                    (tl[i].end = tl[i + 1].start /\ tl[i].end < TotalDuration(ps)) =>
                        /\ ActiveItem(tl, tl[i].end) = i + 1
                        /\ (ps.pc = "raf" /\ ps.elapsed = tl[i].end) => ps.active = i + 1

C13_Witness ==
    \E p \in Passes :
        /\ pass[p].pc = "raf"
        /\ Len(pass[p].timeline) >= 2
        /\ pass[p].elapsed = pass[p].timeline[1].end
        /\ pass[p].elapsed < TotalDuration(pass[p])
        /\ pass[p].active = 2
        /\ pass[p].drawn = 1

\* C14: for a source with positive width and height and either canvas, the
\* rectangle drawImageContain draws keeps the source aspect ratio (renderW *
\* srcH = renderH * srcW), lies inside the canvas, fills the canvas width and
\* is vertically centred when the source aspect is greater than the canvas
\* aspect, and otherwise fills the canvas height and is horizontally centred.
C14_AspectFit ==
    LET r == draw.rect
        w == draw.img.w
        h == draw.img.h
        cw == draw.canvas.w
        ch == draw.canvas.h
        zero == <<0, 1>>
    IN  (draw.called /\ w > 0 /\ h > 0) =>
            /\ r.drawn
            /\ FracEq(FracTimes(r.renderW, h), FracTimes(r.renderH, w))
            /\ FracLeq(zero, r.offsetX)
            /\ FracLeq(zero, r.offsetY)
            /\ FracLeq(zero, r.renderW)
            /\ FracLeq(zero, r.renderH)
            /\ FracLeq(FracAdd(r.offsetX, r.renderW), <<cw, 1>>)
            /\ FracLeq(FracAdd(r.offsetY, r.renderH), <<ch, 1>>)
            /\ IF w * ch > cw * h
                 THEN /\ FracEq(r.renderW, <<cw, 1>>)
                      /\ FracEq(r.offsetX, zero)
                      /\ FracEq(FracAdd(FracTimes(r.offsetY, 2), r.renderH), <<ch, 1>>)
                 ELSE /\ FracEq(r.renderH, <<ch, 1>>)
                      /\ FracEq(r.offsetY, zero)
                      /\ FracEq(FracAdd(FracTimes(r.offsetX, 2), r.renderW), <<cw, 1>>)

C14_Witness ==
    /\ draw.called
    /\ draw.canvas = [w |-> 1080, h |-> 1920]
    /\ draw.img = [w |-> 16, h |-> 9]
    /\ draw.rect.drawn
    /\ draw.rect.offsetY[1] > 0

\* C15: the blob the promise resolves with is the concatenation, in the order
\* of arrival, of the data of the dataavailable events the encoder fired up to
\* its stop event: each appears exactly once and none is reordered (an event
\* with no data adds nothing).
C15_BlobInArrivalOrder ==
    \A p \in Passes :
        LET ps == pass[p]
            events == [n \in 1..Len(ps.sizes) |-> n]
        IN  ps.promise = "resolved" =>
                /\ Len(ps.sizes) = ps.emitted
                /\ ps.value = SelectSeq(events, LAMBDA n : ps.sizes[n] > 0)

C15_Witness ==
    \E p \in Passes :
        /\ pass[p].promise = "resolved"
        /\ pass[p].sizes = <<1, 1>>
        /\ pass[p].value = <<1, 2>>

\* a step of pass p is a call of renderLoop made while the pass is Rendering
RenderingTick(p) ==
    /\ Phase(pass[p]) = "Rendering"
    /\ pass'[p].pc \in {"raf", "loopEnded"}
    /\ \/ pass'[p].pc # pass[p].pc
       \/ pass'[p].elapsed # pass[p].elapsed
       \/ pass'[p].active # pass[p].active
       \/ pass'[p].frames # pass[p].frames

\* C16: a tick of Rendering that reads elapsed >= totalDuration moves the pass
\* to Finalizing, composites no frame, stops the encoder exactly once and
\* schedules no further tick; a tick that reads elapsed < totalDuration
\* composites exactly one frame, for the active segment, and schedules exactly
\* one further tick.
C16_TickOutcome ==
    [][\A p \in Passes :
          RenderingTick(p) =>
              LET ps == pass[p]
                  qs == pass'[p]
              IN  IF qs.elapsed >= TotalDuration(ps)
                    THEN /\ Phase(qs) = "Finalizing"
                         /\ qs.pc = "loopEnded"
                         /\ qs.drawn = 0
                         /\ qs.frames = ps.frames
                         /\ ps.stops = 0 /\ qs.stops = 1
                         /\ qs.recorder = "stopping"
                         /\ qs.rafs = 0
                    ELSE /\ Phase(qs) = "Rendering"
                         /\ qs.pc = "raf"
                         /\ qs.drawn = 1
                         /\ qs.active \in 1..Len(qs.timeline)
                         /\ qs.timeline[qs.active].start <= qs.elapsed
                         /\ qs.elapsed < qs.timeline[qs.active].end
                         /\ qs.rafs = 1
                         /\ qs.stops = 0
                         /\ qs.recorder = "recording"]_vars

C16_Witness ==
    \E p \in Passes :
        /\ Phase(pass[p]) = "Finalizing"
        /\ pass[p].pc = "loopEnded"
        /\ pass[p].stops = 1
        /\ pass[p].rafs = 0
        /\ pass[p].frames > 0
        /\ pass[p].active >= 2

\* C17: in Finalizing the audio is no longer playing and recorder.stop() has
\* been called, once; the pass leaves Finalizing only to Done, when the
\* encoder reports stop, with every chunk in the blob, or to Failed, when the
\* encoder reports an error.
C17_Finalizing ==
    /\ [](\A p \in Passes :
            LET ps == pass[p]
            IN  /\ Phase(ps) = "Finalizing" =>
                       /\ ~Playing(ps)
                       /\ ps.stops = 1
                       /\ ps.recorder = "stopping"
                /\ Phase(ps) = "Done" =>
                       /\ ~Playing(ps)
                       /\ ps.stops = 1
                       /\ ps.recorder = "inactive"
                       /\ ps.audioCtx = "closed"
                       /\ ps.value = ps.chunks)
    /\ [][\A p \in Passes :
            (Phase(pass[p]) = "Finalizing" /\ Phase(pass'[p]) # "Finalizing") =>
                \/ Phase(pass'[p]) = "Done" /\ pass'[p].recorder = "inactive"
                \/ Phase(pass'[p]) = "Failed" /\ pass'[p].errored]_vars

C17_Witness ==
    \E p \in Passes :
        /\ Phase(pass[p]) = "Done"
        /\ pass[p].stops = 1
        /\ pass[p].source = "started"
        /\ pass[p].audioCtx = "closed"
        /\ Len(pass[p].value) >= 1

C19_FailureStopsLoop ==
    \A p \in Passes :
        pass[p].errored =>
            /\ Phase(pass[p]) = "Failed"
            /\ pass[p].promise = "rejected"
            /\ pass[p].rafs = 0
            /\ pass[p].pc # "raf"

\* every asset of the pass has loaded and its audio has been decoded
Primed(ps) ==
    /\ ps.loaded = Len(ps.content.assets)
    /\ ps.pc \in {"buildTimeline", "started", "raf", "loopEnded"}

\* renderLoop has been called
Ticked(ps) == ps.pc \in {"raf", "loopEnded"}

C21_SegmentDurations ==
    \A p \in Passes :
        LET ps == pass[p]
            tl == ps.timeline
        IN  Built(ps) =>
                \A i \in 1..Len(tl) :
                    LET asset == ps.content.assets[tl[i].element + 1]
                    IN  /\ tl[i].type = asset.type
                        /\ asset.type = "image" => tl[i].duration = 5
                        /\ (asset.type = "video" /\ asset.duration > 0) =>
                               tl[i].duration = asset.duration
                        /\ (asset.type = "video" /\ asset.duration \in {0, NaN}) =>
                               tl[i].duration = 5
                        /\ tl[i].duration > 0

C21_Witness ==
    \E p \in Passes :
        /\ pass[p].pc = "raf"
        /\ Len(pass[p].timeline) >= 2
        /\ Len(pass[p].content.assets) = 2
        /\ pass[p].timeline[1].duration = 5
        /\ pass[p].content.assets[1] = [type |-> "video", duration |-> NaN]
        /\ pass[p].content.assets[2] = [type |-> "video", duration |-> 3]
        /\ pass[p].timeline[2].duration = 3

\* C22: the k-th segment (k = 0, 1, ...) is bound to the asset at position
\* k mod len(assets), and the assetIndex stored in every segment is a valid
\* index into the asset list.
C22_AssetIndexWraps ==
    \A p \in Passes :
        LET ps == pass[p]
            tl == ps.timeline
            n == Len(ps.content.assets)
        IN  Built(ps) =>
                \A i \in 1..Len(tl) :
                    /\ tl[i].element = (i - 1) % n
                    /\ tl[i].type = ps.content.assets[((i - 1) % n) + 1].type
                    /\ 0 <= tl[i].assetIndex
                    /\ tl[i].assetIndex < n

\* C23: for a non-empty asset list the timeline loop ends, also with videos
\* of duration 0 or NaN, as soon as cursor >= totalDuration: no segment starts
\* at or after totalDuration, and only the last one reaches it.
C23_BuildStops ==
    \A p \in Passes :
        LET ps == pass[p]
            tl == ps.timeline
            T == TotalDuration(ps)
        IN  (Built(ps) /\ Len(ps.content.assets) > 0) =>
                /\ \A i \in 1..Len(tl) : tl[i].start < T
                /\ \A i \in 1..(Len(tl) - 1) : tl[i].end < T
                /\ T <= 0 => tl = <<>>
                /\ T > 0 => (Len(tl) >= 1 /\ Len(tl) <= T)

C23_Witness ==
    \E p \in Passes :
        /\ pass[p].pc = "loopEnded"
        /\ Len(pass[p].timeline) >= 2
        /\ pass[p].content.assets[1].type = "video"
        /\ pass[p].content.assets[1].duration \in {0, NaN}
        /\ pass[p].timeline[Len(pass[p].timeline)].end > TotalDuration(pass[p])

\* C24: a tick whose active segment is a video seeks the video to
\* (elapsed - segment.start) mod segment.duration, which lies in
\* [0, segment.duration), and draws it; a tick whose active segment is an
\* image makes no seek.
C24_SeekOffset ==
    \A p \in Passes :
        LET ps == pass[p]
            item == ps.timeline[ps.active]
        IN  (ps.pc = "raf" /\ ps.active # 0) =>
                /\ ps.drawn = 1
                /\ item.type = "image" => ps.vidTime = <<>>
                /\ item.type = "video" =>
                       /\ ps.vidTime = <<(ps.elapsed - item.start) % item.duration>>
                       /\ 0 <= ps.vidTime[1]
                       /\ ps.vidTime[1] < item.duration

C24_Witness ==
    \E p \in Passes :
        /\ pass[p].pc = "raf"
        /\ pass[p].active >= 2
        /\ pass[p].timeline[pass[p].active].type = "video"
        /\ pass[p].vidTime = <<1>>

\* C25: the times at which any two invocations of the wrapped function are
\* started through callWithRetry, by whichever callers, differ by at least
\* MIN_REQUEST_SPACING.
C25_RequestSpacing ==
    \A i \in 1..Len(api.starts) :
        \A j \in (i + 1)..Len(api.starts) :
            api.starts[j] - api.starts[i] >= MIN_REQUEST_SPACING

\* C26: callWithRetry with the default retries invokes the wrapped function
\* at most 4 times; it invokes it again only after a rate-limit, 500/503 or
\* network error and while retries remain; any other error, or a retryable one
\* with no retries left, is thrown to the caller as it was raised; after a
\* successful call or a throw there is no further invocation.
C26_RetryPolicy ==
    /\ [](\A c \in Callers :
            LET cs == api.caller[c]
            IN  /\ cs.calls <= 4
                /\ cs.pc # "idle" => cs.calls + cs.retries <= 4
                /\ cs.pc = "returned" => cs.result = "ok" /\ cs.err = ""
                /\ cs.pc = "thrown" =>
                       /\ cs.err = cs.raised
                       /\ cs.result = ""
                       /\ cs.err \notin {"rateLimit", "serverOverload", "networkError"}
                              \/ (cs.calls = 4 /\ cs.retries = 0)
                /\ cs.pc = "backoff" =>
                       /\ cs.raised \in {"rateLimit", "serverOverload", "networkError"}
                       /\ cs.retries > 0)
    /\ [][\A c \in Callers :
            LET cs == api.caller[c]
                ds == api'.caller[c]
            IN  /\ (ds.calls # cs.calls /\ cs.calls > 0) =>
                       /\ ds.calls = cs.calls + 1
                       /\ cs.raised \in {"rateLimit", "serverOverload", "networkError"}
                       /\ ds.retries < DefaultRetries
                /\ cs.pc \in {"returned", "thrown"} => ds = cs]_vars

C26_Witness ==
    \E c \in Callers :
        /\ api.caller[c].pc = "thrown"
        /\ api.caller[c].calls = 4
        /\ api.caller[c].err = "rateLimit"

\* C27: once every render started from the Download or Upload button has
\* finished, isProcessingVideo is false again: with no render in progress and
\* the state READY_TO_PUBLISH the two buttons are enabled.
C27_ButtonsReenabled ==
    ( /\ Mounted
      /\ appState = "READY_TO_PUBLISH"
      /\ \A p \in Passes :
             pass[p].kind # "none" =>
                 /\ pass[p].promise \in {"resolved", "rejected"}
                 /\ pass[p].caller = "done"
                 /\ pass[p].sink # "uploading" )
    => ~isProcessingVideo

\* C28: the AudioContext a pass created is closed once the pass is Done or
\* Failed.
C28_AudioContextClosed ==
    \A p \in Passes :
        Phase(pass[p]) \in {"Done", "Failed"} => pass[p].audioCtx # "running"

\* C29: when no saveToArchive or deleteArchivedProject call is in progress,
\* the archive index lists every project whose data is stored exactly once,
\* and nothing else: in particular no deleted project.
C29_IndexConsistent ==
    (\A o \in Ops : archive.op[o].pc \in {"idle", "done"}) =>
        /\ {archive.index[i] : i \in 1..Len(archive.index)} = archive.data
        /\ Len(archive.index) = Cardinality(archive.data)
        /\ \A i \in 1..Len(archive.index) : archive.index[i] \notin archive.deleted

\* C30: in a tick whose active segment is a video, 0 <= elapsed -
\* segment.start < segment.duration: the video is seeked to exactly elapsed -
\* segment.start, the modulo changes nothing.
C30_NoWrapAround ==
    \A p \in Passes :
        LET ps == pass[p]
            item == ps.timeline[ps.active]
        IN  (ps.pc = "raf" /\ ps.active # 0 /\ item.type = "video") =>
                /\ 0 <= ps.elapsed - item.start
                /\ ps.elapsed - item.start < item.duration
                /\ ps.vidTime = <<ps.elapsed - item.start>>

C30_Witness ==
    \E p \in Passes :
        /\ pass[p].pc = "raf"
        /\ pass[p].timeline[pass[p].active].type = "video"
        /\ pass[p].timeline[pass[p].active].duration = 3
        /\ pass[p].elapsed - pass[p].timeline[pass[p].active].start = 2
        /\ pass[p].vidTime = <<2>>

====
